---- MODULE Spec2Model ----
(***************************************************************************)
(* A model of the IDragnev::Functional combinators: invoke, compose,      *)
(* superpose, curry, bindFront, bindFirst, flip, inverse, allOf, anyOf,    *)
(* noneOf, the operator binders, matches and firstOf.  The library is      *)
(* resolved by the C++ type                                                *)
(* system, so the model keeps two levels apart:                            *)
(*   - the static level (IsInvocable, ResultType, ...Accepts): what the    *)
(*     compiler decides from the TYPES of a callable and its arguments;    *)
(*   - the dynamic level (Apply, Invoke): what the instantiated code       *)
(*     computes from the VALUES, with the list of the user callables it    *)
(*     executes, and Error where an evaluation step is impossible.         *)
(* The state machine is a program that constructs one combinator object,   *)
(* calls it (possibly several times, possibly calling what it returned)    *)
(* and starts over.                                                        *)
(***************************************************************************)
EXTENDS Integers, Sequences, FiniteSets, TLC

\* ----------------------------------------------------------------- bounds
MaxCands == 3      \* candidates given to firstOf
MaxVal == 1        \* argument values are 0..MaxVal
MaxCompose == 3    \* functions given to compose
MaxSuperposed == 3 \* inner functions given to superpose

\* ------------------------------------------------------------------ state
VARIABLES
    pc,        \* "idle" | "built" | "called" | "rejected"
    fn,        \* the callable / combinator object the program holds
    ctor,      \* how fn was constructed: the combinator and its arguments
    args,      \* the argument list of the last call
    accepted,  \* whether the last call was accepted by the compiler
    result,    \* what the last call returned
    calls,     \* the user callables the last call executed, in order
    path,      \* the branches of invoke the last call went through
    heap,      \* the objects that reference wrappers and pointers refer to
    chain,     \* the argument lists of the calls that led from the
               \* constructed object to fn
    again,     \* whether the last call was a repeated invocation of fn
    order      \* the order in which the compiled closure of superpose
               \* evaluates the arguments of its call of f (unspecified by
               \* the language)

vars == <<pc, fn, ctor, args, accepted, result, calls, path, heap, chain,
          again, order>>

\* ----------------------------------------------------------------- values
\* A value carries its static type and its content.
V(t, v) == [type |-> t, val |-> v]

NoObject == [kind |-> "none"]
NoValue == [type |-> "void", val |-> 0]
ErrorValue == [type |-> "error", val |-> 0]

\* The outcome of a call that left by an exception, and of one that ended
\* in std::terminate.
ExceptionValue == [type |-> "exception", val |-> 0]
TerminatedValue == [type |-> "terminated", val |-> 0]

\* decltype of an argument; a callable passed as an argument has a closure
\* (or function object) type.
TypeOf(v) == IF "kind" \in DOMAIN v THEN "closure" ELSE v.type
TypesOf(vs) == [i \in 1..Len(vs) |-> TypeOf(vs[i])]

\* The empty structs First, Second of the firstOf tests, and int / double.
TagTypes == {"First", "Second"}
ArithmeticTypes == {"Int", "Double"}

\* bool converts to and from the arithmetic types.
ScalarTypes == ArithmeticTypes \cup {"Bool"}
CandTypes == TagTypes \cup ArithmeticTypes

\* struct C { int x; int plus(int y, int z) const; }; struct D : C { ... };
\* std::reference_wrapper<C>, <D>; C*, D*.
ClassTypes == {"C", "D"}
RefTypes == {"RefC", "RefD"}
PtrTypes == {"PtrC", "PtrD"}

\* The class a reference wrapper or pointer type refers to.
Referent(t) == IF t \in {"RefC", "PtrC"} THEN "C" ELSE "D"

\* std::is_base_of_v<base, t> for the classes C and D : C.
Derives(t, base) == t = base \/ (t = "D" /\ base = "C")

ValuesOf(t) == IF t \in ArithmeticTypes THEN {V(t, n) : n \in 0..MaxVal}
               ELSE {V(t, 0)}

\* An argument of type `from` is accepted by a parameter of type `to`:
\* exactly, or through the implicit conversion between int and double.
Converts(from, to) ==
    \/ from = to
    \/ from \in ScalarTypes /\ to \in ScalarTypes

\* The value a parameter of type `to` receives from the argument v; a
\* conversion to bool yields true for every value but zero.
Convert(v, to) ==
    IF to = "Bool" /\ TypeOf(v) # "Bool"
    THEN V(to, IF v.val = 0 THEN 0 ELSE 1)
    ELSE V(to, v.val)

\* The orders of evaluation of the arguments of a call that builds use.
ArgumentOrders == {"leftToRight", "rightToLeft"}

\* ------------------------------------------------------- user callables
\* A user lambda with fixed parameter types: [](P...) { return body; }.
Lambda(params, ret, body, k) ==
    [kind |-> "fn", params |-> params, ret |-> ret, body |-> body, k |-> k]

\* [](T) { return k; }: the candidates of the firstOf tests.
ConstLambda(t, k) == Lambda(<<t>>, "Int", "const", k)

LambdaAccepts(f, ts) ==
    /\ Len(ts) = Len(f.params)
    /\ \A i \in 1..Len(ts) : Converts(ts[i], f.params[i])

LambdaBody(f, vs) ==
    CASE f.body = "const" -> V(f.ret, f.k)
      [] f.body = "plusOne" -> V(f.ret, vs[1].val + 1)
      [] f.body = "twice" -> V(f.ret, 2 * vs[1].val)
      [] f.body = "minus" -> V(f.ret, vs[1].val - vs[2].val)
      [] f.body = "digits" ->
            V(f.ret, 100 * vs[1].val + 10 * vs[2].val + vs[3].val)
      [] f.body = "checkedMinus" ->
            IF vs[1].val < vs[2].val THEN ExceptionValue
            ELSE V(f.ret, vs[1].val - vs[2].val)
      [] f.body = "insertFront" -> V(f.ret, <<vs[1].val>> \o vs[2].val)
      [] f.body = "isPositive" ->
            V(f.ret, IF vs[1].val > 0 THEN 1 ELSE 0)
      [] f.body = "isEven" ->
            V(f.ret, IF vs[1].val % 2 = 0 THEN 1 ELSE 0)
      [] OTHER -> ErrorValue

\* [](auto x) { return x + 1; } and friends, on int.
PlusOne == Lambda(<<"Int">>, "Int", "plusOne", 0)
Twice == Lambda(<<"Int">>, "Int", "twice", 0)
Minus == Lambda(<<"Int", "Int">>, "Int", "minus", 0)

\* [](auto x, auto y, auto z) { ... }: a function of three ints whose result
\* tells the position of each argument.
Digits == Lambda(<<"Int", "Int", "Int">>, "Int", "digits", 0)

\* [](int x, int y) { if (x < y) throw ...; return x - y; }: a callable that
\* throws for some arguments.
CheckedMinus == Lambda(<<"Int", "Int">>, "Int", "checkedMinus", 0)

\* [](auto x, auto&& container) { container.push_front(x);
\*                                return std::move(container); }
InsertFront == Lambda(<<"Int", "List">>, "List", "insertFront", 0)

\* std::forward_list<int> values: the lists of at most two elements.
ListValues ==
    { V("List", w) : w \in UNION { [1..n -> 0..MaxVal] : n \in 0..2 } }

\* [](auto x) { return x > 0; } and [](auto x) { return x % 2 == 0; }, on int.
IsPositive == Lambda(<<"Int">>, "Bool", "isPositive", 0)
IsEven == Lambda(<<"Int">>, "Bool", "isEven", 0)

\* Pointers to members: Ret C::*f.  cls is the class C of the pointer type.
MemberFunction(cls, name, params) ==
    [kind |-> "memfun", cls |-> cls, name |-> name, params |-> params, ret |-> "Int"]
MemberData(cls, name) ==
    [kind |-> "memdata", cls |-> cls, name |-> name, ret |-> "Int"]

\* &C::plus, int plus(int y, int z) const { return x + y + z; }
\* &D::minus, int minus(int y) const { return x - y; }; &C::x.
PlusOfC == MemberFunction("C", "plus", <<"Int", "Int">>)
MinusOfD == MemberFunction("D", "minus", <<"Int">>)
XOfC == MemberData("C", "x")

\* (obj.*f)(vs...) on the object obj.
MemberFunctionBody(f, obj, vs) ==
    CASE f.name = "plus" -> V(f.ret, obj.val + vs[1].val + vs[2].val)
      [] f.name = "minus" -> V(f.ret, obj.val - vs[1].val)
      [] OTHER -> ErrorValue

\* obj.*f
MemberDataOf(f, obj) == V(f.ret, obj.val)

\* Deleted<F>: the marker of a deliberately rejected overload.
Deleted(f) == [kind |-> "Deleted", f |-> f]

\* Detail::FirstOf<Fs...>: first = Head(fs), rest = FirstOf<Tail(fs)>.
FirstOf(fs) == [kind |-> "FirstOf", fs |-> fs]

\* The closure compose(f, g) returns: [f, g](auto&&... args).
Compose2(f, g) == [kind |-> "composed", f |-> f, g |-> g]

\* compose(f, g, funs...) = compose(compose(f, g), funs...)
RECURSIVE Compose(_)
Compose(fs) ==
    IF Len(fs) = 2 THEN Compose2(fs[1], fs[2])
    ELSE Compose(<<Compose2(fs[1], fs[2])>> \o SubSeq(fs, 3, Len(fs)))

\* The closure Detail::curryImpl(f, args...) returns:
\* [f, ...boundArgs](auto&&... rest).
CurryImpl(f, bound) == [kind |-> "curried", f |-> f, bound |-> bound]

\* curry = [](auto f) { return Detail::curryImpl(f); }
Curry(f) == CurryImpl(f, <<>>)

\* The closure bindFront(f, args...) returns: [f, ...bound](auto&&... rest).
BindFront(f, bound) == [kind |-> "bound", f |-> f, bound |-> bound]

\* ------------------------------------------- function objects, strings
\* std::string values: the strings of at most one character.
StringValues ==
    { V("String", w) : w \in UNION { [1..n -> 0..MaxVal] : n \in 0..1 } }

\* a < b for two strings (lexicographic order).
RECURSIVE LexLess(_, _)
LexLess(a, b) ==
    IF b = <<>> THEN FALSE
    ELSE IF a = <<>> THEN TRUE
    ELSE IF Head(a) # Head(b) THEN Head(a) < Head(b)
    ELSE LexLess(Tail(a), Tail(b))

\* true / false as values.
Bool(b) == V("Bool", IF b THEN 1 ELSE 0)

\* The value as a condition (contextual conversion to bool).
Truthy(v) == v.val # 0

\* The transparent function objects std::plus{}, std::minus{}, ...
BinaryOp(name) == [kind |-> "binop", name |-> name]

ArithmeticOps == {"plus", "minus", "multiplies", "divides", "modulus"}
ComparisonOps ==
    {"equal_to", "not_equal_to", "less", "greater", "greater_equal",
     "less_equal"}

\* l OP r is well-formed for operands of the types ts: arithmetic on the
\* scalar types (% on the integral ones only), + and the comparisons on
\* strings too.
BinaryOpAccepts(c, ts) ==
    /\ Len(ts) = 2
    /\ \/ /\ ts[1] \in ScalarTypes /\ ts[2] \in ScalarTypes
          /\ c.name = "modulus" => "Double" \notin {ts[1], ts[2]}
       \/ /\ ts[1] = "String" /\ ts[2] = "String"
          /\ c.name \in {"plus"} \cup ComparisonOps

\* decltype(l OP r)
BinaryOpResultType(c, ts) ==
    IF c.name \in ComparisonOps THEN "Bool"
    ELSE IF ts[1] = "String" THEN "String"
    ELSE IF "Double" \in {ts[1], ts[2]} THEN "Double"
    ELSE "Int"

\* l OP r.  The operands of / and % are non-negative integers here, where
\* the truncating division of the language is \div; a zero divisor has no
\* defined result.
BinaryOpBody(c, l, r) ==
    LET t == BinaryOpResultType(c, <<TypeOf(l), TypeOf(r)>>)
        a == l.val
        b == r.val
        strings == TypeOf(l) = "String"
    IN  CASE c.name = "plus" -> IF strings THEN V(t, a \o b) ELSE V(t, a + b)
          [] c.name = "minus" -> V(t, a - b)
          [] c.name = "multiplies" -> V(t, a * b)
          [] c.name = "divides" -> IF b = 0 THEN ErrorValue ELSE V(t, a \div b)
          [] c.name = "modulus" -> IF b = 0 THEN ErrorValue ELSE V(t, a % b)
          [] c.name = "equal_to" -> Bool(a = b)
          [] c.name = "not_equal_to" -> Bool(a # b)
          [] c.name = "less" -> Bool(IF strings THEN LexLess(a, b) ELSE a < b)
          [] c.name = "greater" ->
                Bool(IF strings THEN LexLess(b, a) ELSE a > b)
          [] c.name = "greater_equal" ->
                Bool(IF strings THEN ~LexLess(a, b) ELSE a >= b)
          [] c.name = "less_equal" ->
                Bool(IF strings THEN ~LexLess(b, a) ELSE a <= b)
          [] OTHER -> ErrorValue

\* ------------------------------------------------------- andAll, orAll
\* Detail::andAll = [](auto... args) { return (args && ...); } and
\* Detail::orAll = [](auto... args) { return (args || ...); }
AndAll == [kind |-> "fold", op |-> "and"]
OrAll == [kind |-> "fold", op |-> "or"]

\* Every operand of && / || converts to bool.
FoldAccepts(c, ts) == \A i \in 1..Len(ts) : ts[i] \in ScalarTypes

\* The deduced return type of the fold expression: a pack of one element
\* expands to the element itself.
FoldResultType(c, ts) == IF Len(ts) = 1 THEN ts[1] ELSE "Bool"

\* Faulty variant: && and || exchanged.
FoldBody_Exchanged(c, vs) ==
    IF vs = <<>> THEN Bool(c.op = "or")
    ELSE IF Len(vs) = 1 THEN vs[1]
    ELSE IF c.op = "or" THEN Bool(\A i \in 1..Len(vs) : Truthy(vs[i]))
    ELSE Bool(\E i \in 1..Len(vs) : Truthy(vs[i]))

\* (args && ...) and (args || ...): true and false for the empty pack, the
\* operand for a pack of one.
FoldBody(c, vs) ==
    IF vs = <<>> THEN Bool(c.op = "and")
    ELSE IF Len(vs) = 1 THEN vs[1]
    ELSE IF c.op = "and" THEN Bool(\A i \in 1..Len(vs) : Truthy(vs[i]))
    ELSE Bool(\E i \in 1..Len(vs) : Truthy(vs[i]))

\* ---------------------------------------------------------- superpose
\* The closure superpose(f, funs...) returns: [f, funs...](const auto&... args).
Superpose(f, gs) == [kind |-> "superposed", f |-> f, gs |-> gs]

\* ------------------------------------------------------ flip, bindFirst
\* flip = [](auto f) { ... } and the closure it returns: [f](auto&& x, auto&& y).
Flip == [kind |-> "flip"]
Flipped(f) == [kind |-> "flipped", f |-> f]

\* bindFirst = [](auto&& f, auto&& arg) { return bindFront(f, arg); }
BindFirst == [kind |-> "bindFirst"]

\* Faulty variant: bindFirst curried, without the flip: the binder fixes the
\* left operand.
MakeBinaryFunctionRightArgumentBinder_NoFlip == Curry(BindFirst)

\* Detail::makeBinaryFunctionRightArgumentBinder = compose(curry(bindFirst), flip)
MakeBinaryFunctionRightArgumentBinder == Compose2(Curry(BindFirst), Flip)

\* --------------------------------------- inverse, predicate combinators
\* inverse = [](auto predicate) { ... } and the closure it returns:
\* [predicate](auto&&... args).
Inverse == [kind |-> "inverse"]
Inverted(predicate) == [kind |-> "inverted", predicate |-> predicate]

\* Detail::makePredicateCombinator(op): [op](auto... predicates).
MakePredicateCombinator(op) == [kind |-> "predicateCombinator", op |-> op]

AllOf == MakePredicateCombinator(AndAll)
AnyOf == MakePredicateCombinator(OrAll)

\* Faulty variant: the inverse of allOf.
NoneOf_OverAllOf == Compose2(Inverse, AllOf)

\* noneOf = compose(inverse, anyOf)
NoneOf == Compose2(Inverse, AnyOf)

\* ------------------------------------------------------ evaluation result
Returned(v, cs) == [ok |-> TRUE, v |-> v, calls |-> cs]
Failed(cs) == [ok |-> FALSE, v |-> ErrorValue, calls |-> cs]
Executed(f, vs, v) == [f |-> f, args |-> vs, ret |-> v]

\* The concatenation of a list of lists: the argument lists of a chain
\* of calls, the executions of several evaluations.
RECURSIVE Flatten(_)
Flatten(groups) ==
    IF groups = <<>> THEN <<>> ELSE Head(groups) \o Flatten(Tail(groups))

\* The list in the opposite order.
Reverse(s) == [i \in 1..Len(s) |-> s[Len(s) - i + 1]]

RECURSIVE IsInvocable(_, _, _)
RECURSIVE ResultType(_, _)
RECURSIVE Apply(_, _)
RECURSIVE FirstOfCallable(_, _)
RECURSIVE Invoke(_, _)

\* --------------------------------------------------------------- invoke
\* Detail::isReferenceWrapper<std::decay_t<T>>
IsReferenceWrapper(t) == t \in RefTypes

\* std::is_base_of_v<C, std::decay_t<T>>
IsBaseOf(cls, t) == t \in ClassTypes /\ Derives(t, cls)

\* Faulty variant: the reference wrapper branch is missing, every receiver
\* that is not an instance is dereferenced.
ReceiverShape_NoWrapperBranch(cls, t) ==
    IF IsBaseOf(cls, t) THEN "instance" ELSE "pointer"

\* The branch of invokeMemberFunction / invokeMemberPointer for a receiver of
\* type t and a member of class cls.
ReceiverShape(cls, t) ==
    IF IsBaseOf(cls, t) THEN "instance"
    ELSE IF IsReferenceWrapper(t) THEN "referenceWrapper"
    ELSE "pointer"

\* obj.get() and *obj: the object at the address the receiver holds.
Get(obj) == heap[obj.val]
Dereference(obj) == heap[obj.val]

\* The object obj.*f is applied to in the taken branch, or an error where
\* the branch's expression is ill-formed.
ReceiverObject(cls, obj) ==
    LET shape == ReceiverShape(cls, TypeOf(obj))
        target ==
            CASE shape = "instance" -> obj
              [] shape = "referenceWrapper" -> Get(obj)
              [] shape = "pointer" ->
                    IF TypeOf(obj) \in PtrTypes THEN Dereference(obj)
                    ELSE ErrorValue
    IN  IF TypeOf(target) \in ClassTypes /\ Derives(TypeOf(target), cls)
        THEN target ELSE ErrorValue

\* Detail::invokeMemberFunction(Ret C::*f, T&& obj, Args&&... args)
InvokeMemberFunction(f, vs) ==
    IF vs = <<>> THEN Failed(<<>>)
    ELSE LET obj == ReceiverObject(f.cls, Head(vs))
             rest == Tail(vs)
         IN  IF /\ obj # ErrorValue
                /\ Len(rest) = Len(f.params)
                /\ \A i \in 1..Len(rest) : Converts(TypeOf(rest[i]), f.params[i])
             THEN LET ps == [i \in 1..Len(rest) |-> Convert(rest[i], f.params[i])]
                      v == MemberFunctionBody(f, obj, ps)
                  IN  Returned(v, <<Executed(f, <<obj>> \o rest, v)>>)
             ELSE Failed(<<>>)

\* Detail::invokeMemberPointer(MemberT C::*f, T&& obj)
InvokeMemberPointer(f, recv) ==
    LET obj == ReceiverObject(f.cls, recv)
    IN  IF obj # ErrorValue THEN Returned(MemberDataOf(f, obj), <<>>)
        ELSE Failed(<<>>)

\* Faulty variant: a run-time test of the receiver decides the member data
\* branch.
InvokePath_ByValue(f, vs) ==
    IF f.kind = "memfun" THEN "memberFunction"
    ELSE IF f.kind = "memdata" /\ Len(vs) = 1 /\ vs[1].val # 0
         THEN "memberPointer"
    ELSE "direct"

\* Faulty variant: the member function branch is missing.
InvokePath_NoMemberFunction(f, vs) ==
    IF f.kind = "memdata" /\ Len(vs) = 1 THEN "memberPointer"
    ELSE "direct"

\* The if constexpr chain of invoke.
InvokePath(f, vs) ==
    IF f.kind = "memfun" THEN "memberFunction"
    ELSE IF f.kind = "memdata" /\ Len(vs) = 1 THEN "memberPointer"
    ELSE "direct"

\* The branch taken inside invokeMemberFunction / invokeMemberPointer.
ReceiverBranch(f, vs) ==
    IF InvokePath(f, vs) = "direct" \/ vs = <<>> THEN "none"
    ELSE ReceiverShape(f.cls, TypeOf(vs[1]))

\* invoke(F&& f, Args&&... args)
Invoke(f, vs) ==
    LET p == InvokePath(f, vs)
    IN  CASE p = "memberFunction" -> InvokeMemberFunction(f, vs)
          [] p = "memberPointer" -> InvokeMemberPointer(f, vs[1])
          [] p = "direct" -> Apply(f, vs)

\* A receiver type std::invoke accepts for a member of class cls: an
\* instance, a reference wrapper or a pointer of cls or of a derived class.
ReceiverAccepted(cls, t) ==
    \/ t \in ClassTypes /\ Derives(t, cls)
    \/ t \in RefTypes \cup PtrTypes /\ Derives(Referent(t), cls)

\* std::invoke_result_t<F, Args...> exists for a pointer to member F.
MemberInvocable(f, ts) ==
    /\ ts # <<>>
    /\ ReceiverAccepted(f.cls, ts[1])
    /\ IF f.kind = "memdata" THEN Len(ts) = 1
       ELSE /\ Len(ts) - 1 = Len(f.params)
            /\ \A i \in 1..Len(f.params) : Converts(ts[i + 1], f.params[i])

\* Deleted<F>::operator() is declared without const.
DeletedCallOperatorIsConst == FALSE

\* std::is_invocable_v of Deleted<F>: enable_if is_invocable_v<const F&, Args...>.
DeletedInvocable(c, ts, asConst) ==
    /\ asConst => DeletedCallOperatorIsConst
    /\ IsInvocable(c.f, ts, TRUE)

\* bool FirstOverloadMatched = std::is_invocable_v<const F&, Args...>
FirstOverloadMatched(F, ts) == IsInvocable(F, ts, TRUE)

\* Faulty variant: the Deleted marker treated like a deleted function of an
\* overload set, where an exactly matching deleted overload wins wherever it
\* stands.
FirstOfCallable_ExactDeletedWins(fs, ts) ==
    /\ \E i \in 1..Len(fs) : fs[i].kind = "fn" /\ LambdaAccepts(fs[i], ts)
    /\ ~\E j \in 1..Len(fs) : fs[j].kind = "Deleted" /\ fs[j].f.params = ts

\* Faulty variant: nothing checks that a candidate accepts the arguments,
\* every selector with candidates is callable.
FirstOfCallable_Unchecked(fs, ts) == fs # <<>>

\* Whether overload resolution on a const FirstOf<fs...> finds a usable
\* operator() for the argument types ts.  The first operator() template is
\* viable when invoke_result_t<MatchedOverload, Args...> exists and is not
\* DeletedT; the second, deleted one is viable when the first candidate is
\* invocable and yields DeletedT.  FirstOf<> has no operator().
FirstOfCallable(fs, ts) ==
    IF fs = <<>> THEN FALSE
    ELSE LET F == Head(fs)
             Rest == FirstOf(Tail(fs))
             matched == FirstOverloadMatched(F, ts)
             MatchedOverload == IF matched THEN F ELSE Rest
             forwarding ==
                /\ IsInvocable(MatchedOverload, ts, TRUE)
                /\ ResultType(MatchedOverload, ts) # "DeletedT"
             deleted == matched /\ ResultType(F, ts) = "DeletedT"
         IN  forwarding /\ ~deleted

\* Faulty variant: the second static_assert and the check of the outer invoke are
\* missing, only g is checked against the arguments.
ComposedAccepts_InnerOnly(c, ts) ==
    /\ IsInvocable(c.g, ts, FALSE)
    /\ IsInvocable(c.g, ts, TRUE)

\* A call of the closure of compose compiles: both static_asserts hold (on
\* decltype(g), decltype(f)) and both invoke calls on the captured, const
\* g and f are well-formed.
ComposedAccepts(c, ts) ==
    /\ IsInvocable(c.g, ts, FALSE)
    /\ IsInvocable(c.f, <<ResultType(c.g, ts)>>, FALSE)
    /\ IsInvocable(c.g, ts, TRUE)
    /\ IsInvocable(c.f, <<ResultType(c.g, ts)>>, TRUE)

\* if constexpr (std::is_invocable_v<decltype(f), decltype(boundArgs)...,
\* decltype(rest)...>) of the curried closure.
CurriedComplete(c, ts) == IsInvocable(c.f, TypesOf(c.bound) \o ts, FALSE)

\* A call of the curried closure compiles: the invoke of the captured, const
\* f is well-formed when the argument list is complete; otherwise a new
\* closure is returned.
CurriedAccepts(c, ts) ==
    CurriedComplete(c, ts) => IsInvocable(c.f, TypesOf(c.bound) \o ts, TRUE)

\* A call of the closure of bindFront compiles: the static_assert holds and
\* the invoke of the captured, const f is well-formed.
BoundAccepts(c, ts) ==
    /\ IsInvocable(c.f, TypesOf(c.bound) \o ts, FALSE)
    /\ IsInvocable(c.f, TypesOf(c.bound) \o ts, TRUE)

\* The overload of superpose chosen for a call with n functions.  With one
\* function both templates are viable with the same conversions, and the
\* deleted superpose(F&&) is the more specialised one: the other ends in a
\* parameter pack.
\* Faulty variant: the deleted overload is not declared.
SuperposeSelected_NoDeleted(n) ==
    IF n = 0 THEN "none" ELSE "variadic"

SuperposeSelected(n) ==
    CASE n = 0 -> "none"
      [] n = 1 -> "deleted"
      [] OTHER -> "variadic"

\* superpose(fs...) with n functions compiles.
SuperposeAccepts(n) == SuperposeSelected(n) = "variadic"

\* The types of the results of the inner functions of a superposition.
SuperposedResultTypes(c, ts) ==
    [i \in 1..Len(c.gs) |-> ResultType(c.gs[i], ts)]

\* A call of the closure of superpose compiles: both static_asserts hold (on
\* decltype(funs), decltype(f)) and the invoke calls on the captured, const
\* funs and f are well-formed.
SuperposedAccepts(c, ts) ==
    /\ \A i \in 1..Len(c.gs) :
          IsInvocable(c.gs[i], ts, FALSE) /\ IsInvocable(c.gs[i], ts, TRUE)
    /\ IsInvocable(c.f, SuperposedResultTypes(c, ts), FALSE)
    /\ IsInvocable(c.f, SuperposedResultTypes(c, ts), TRUE)

\* A call of the closure of flip compiles: two arguments, and the invoke
\* of the captured, const f on them in the opposite order is well-formed.
FlippedAccepts(c, ts) ==
    /\ Len(ts) = 2
    /\ IsInvocable(c.f, <<ts[2], ts[1]>>, TRUE)

\* The noexcept specification of the closure of flip:
\* noexcept(std::is_invocable_v<decltype(f), decltype(y), decltype(x)>).
FlippedNoexcept(c, ts) == IsInvocable(c.f, <<ts[2], ts[1]>>, FALSE)

\* A call of the closure of inverse compiles: predicate(args...) on the
\* captured, const predicate is well-formed (a plain call, not invoke) and !
\* applies to its result.
InvertedAccepts(c, ts) ==
    /\ c.predicate.kind \notin {"memfun", "memdata"}
    /\ IsInvocable(c.predicate, ts, TRUE)
    /\ ResultType(c.predicate, ts) \in ScalarTypes

\* std::is_invocable_v<c, ts...>, c taken as const when asConst; false for
\* a c that is a plain value and no callable.
IsInvocable(c, ts, asConst) ==
    CASE "kind" \notin DOMAIN c -> FALSE
      [] c.kind = "fn" -> LambdaAccepts(c, ts)
      [] c.kind = "Deleted" -> DeletedInvocable(c, ts, asConst)
      [] c.kind = "FirstOf" -> FirstOfCallable(c.fs, ts)
      [] c.kind \in {"memfun", "memdata"} -> MemberInvocable(c, ts)
      [] c.kind = "composed" -> ComposedAccepts(c, ts)
      [] c.kind = "curried" -> CurriedAccepts(c, ts)
      [] c.kind = "bound" -> BoundAccepts(c, ts)
      [] c.kind = "binop" -> BinaryOpAccepts(c, ts)
      [] c.kind = "superposed" -> SuperposedAccepts(c, ts)
      [] c.kind = "fold" -> FoldAccepts(c, ts)
      [] c.kind = "flip" -> Len(ts) = 1
      [] c.kind = "flipped" -> FlippedAccepts(c, ts)
      [] c.kind = "bindFirst" -> Len(ts) = 2
      [] c.kind = "inverse" -> Len(ts) = 1
      [] c.kind = "inverted" -> InvertedAccepts(c, ts)
      [] c.kind = "predicateCombinator" -> SuperposeAccepts(1 + Len(ts))
      [] OTHER -> FALSE

\* std::invoke_result_t<c, ts...> of an invocable c.
ResultType(c, ts) ==
    CASE c.kind = "fn" -> c.ret
      [] c.kind = "Deleted" -> "DeletedT"
      [] c.kind = "FirstOf" ->
            IF FirstOverloadMatched(Head(c.fs), ts)
            THEN ResultType(Head(c.fs), ts)
            ELSE ResultType(FirstOf(Tail(c.fs)), ts)
      [] c.kind \in {"memfun", "memdata"} -> c.ret
      [] c.kind = "composed" -> ResultType(c.f, <<ResultType(c.g, ts)>>)
      [] c.kind = "curried" ->
            IF CurriedComplete(c, ts)
            THEN ResultType(c.f, TypesOf(c.bound) \o ts)
            ELSE "closure"
      [] c.kind = "bound" -> ResultType(c.f, TypesOf(c.bound) \o ts)
      [] c.kind = "binop" -> BinaryOpResultType(c, ts)
      [] c.kind = "superposed" ->
            ResultType(c.f, SuperposedResultTypes(c, ts))
      [] c.kind = "fold" -> FoldResultType(c, ts)
      [] c.kind \in {"inverse", "predicateCombinator", "flip", "bindFirst"} ->
            "closure"
      [] c.kind = "flipped" -> ResultType(c.f, <<ts[2], ts[1]>>)
      [] c.kind = "inverted" -> "Bool"
      [] OTHER -> "error"

\* Faulty variant: the rest of the candidates is tried before the first one.
FirstOfCall_RestFirst(c, vs) ==
    IF c.fs = <<>> THEN Failed(<<>>)
    ELSE IF FirstOfCallable(Tail(c.fs), TypesOf(vs))
         THEN Invoke(FirstOf(Tail(c.fs)), vs)
         ELSE Invoke(Head(c.fs), vs)

\* The body of FirstOf::operator(): if constexpr (FirstOverloadMatched)
\* invoke(first, args...) else invoke(rest, args...).
FirstOfCall(c, vs) ==
    IF c.fs = <<>> THEN Failed(<<>>)
    ELSE IF FirstOverloadMatched(Head(c.fs), TypesOf(vs))
         THEN Invoke(Head(c.fs), vs)
         ELSE Invoke(FirstOf(Tail(c.fs)), vs)

\* Faulty variant: f is applied to the arguments and g to its result.
ComposedCall_Reversed(c, vs) ==
    LET inner == Invoke(c.f, vs)
    IN  IF ~inner.ok THEN Failed(inner.calls)
        ELSE LET outer == Invoke(c.g, <<inner.v>>)
             IN  [ok |-> outer.ok, v |-> outer.v,
                  calls |-> inner.calls \o outer.calls]

\* The closure of compose: return invoke(f, invoke(g, args...)).
ComposedCall(c, vs) ==
    LET inner == Invoke(c.g, vs)
    IN  IF ~inner.ok THEN Failed(inner.calls)
        ELSE LET outer == Invoke(c.f, <<inner.v>>)
             IN  [ok |-> outer.ok, v |-> outer.v,
                  calls |-> inner.calls \o outer.calls]

\* Faulty variant: the new arguments are passed before the bound ones.
CurriedCall_NewFirst(c, vs) ==
    IF CurriedComplete(c, TypesOf(vs))
    THEN Invoke(c.f, vs \o c.bound)
    ELSE Returned(CurryImpl(c.f, vs \o c.bound), <<>>)

\* Faulty variant: the new closure holds the new arguments only.
CurriedCall_ForgetsBound(c, vs) ==
    IF CurriedComplete(c, TypesOf(vs))
    THEN Invoke(c.f, c.bound \o vs)
    ELSE Returned(CurryImpl(c.f, vs), <<>>)

\* The curried closure: invoke(f, boundArgs..., rest...) when that is
\* invocable, else curryImpl(f, boundArgs..., rest...).
CurriedCall(c, vs) ==
    IF CurriedComplete(c, TypesOf(vs))
    THEN Invoke(c.f, c.bound \o vs)
    ELSE Returned(CurryImpl(c.f, c.bound \o vs), <<>>)

\* Faulty variant: the call's arguments are passed before the bound ones.
BoundCall_NewFirst(c, vs) == Invoke(c.f, vs \o c.bound)

\* The closure of bindFront: return invoke(f, bound..., rest...).
BoundCall(c, vs) == Invoke(c.f, c.bound \o vs)

\* The inner functions of a superposition applied to the call's arguments.
SuperposedInner(c, vs) == [i \in 1..Len(c.gs) |-> Invoke(c.gs[i], vs)]

\* Faulty variant: under andAll or orAll the evaluation of the inner calls
\* stops at the first result that decides the outcome.
SuperposedInnerCalls_ShortCircuit(c, vs) ==
    LET inner == SuperposedInner(c, vs)
        evaluated == IF order = "leftToRight" THEN inner ELSE Reverse(inner)
        n == Len(inner)
        Decides(r) ==
            c.f.kind = "fold" /\ r.ok /\ (Truthy(r.v) = (c.f.op = "or"))
        deciding == { i \in 1..n : Decides(evaluated[i]) }
        last == IF deciding = {} THEN n
                ELSE CHOOSE i \in deciding : \A j \in deciding : i <= j
    IN  Flatten([i \in 1..last |-> evaluated[i].calls])

\* The executions of the inner functions in the order the build evaluates
\* them: all of them, each argument of the call of f being evaluated before
\* f is entered.
SuperposedInnerCalls(c, vs) ==
    LET inner == SuperposedInner(c, vs)
        evaluated == IF order = "leftToRight" THEN inner ELSE Reverse(inner)
    IN  Flatten([i \in 1..Len(inner) |-> evaluated[i].calls])

\* Faulty variant: the results of the inner functions reach f in the opposite
\* order.
SuperposedCall_ReversedResults(c, vs) ==
    LET inner == SuperposedInner(c, vs)
    IN  IF \E i \in 1..Len(inner) : ~inner[i].ok
        THEN Failed(SuperposedInnerCalls(c, vs))
        ELSE LET outer ==
                    Invoke(c.f, Reverse([i \in 1..Len(inner) |-> inner[i].v]))
             IN  [ok |-> outer.ok, v |-> outer.v,
                  calls |-> SuperposedInnerCalls(c, vs) \o outer.calls]

\* The closure of superpose: return invoke(f, invoke(funs, args...)...).
SuperposedCall(c, vs) ==
    LET inner == SuperposedInner(c, vs)
    IN  IF \E i \in 1..Len(inner) : ~inner[i].ok
        THEN Failed(SuperposedInnerCalls(c, vs))
        ELSE LET outer == Invoke(c.f, [i \in 1..Len(inner) |-> inner[i].v])
             IN  [ok |-> outer.ok, v |-> outer.v,
                  calls |-> SuperposedInnerCalls(c, vs) \o outer.calls]

\* The closure of flip: return invoke(f, y, x).  An exception that leaves a
\* function declared noexcept ends in std::terminate.
FlippedCall(c, vs) ==
    IF Len(vs) = 2
    THEN LET r == Invoke(c.f, <<vs[2], vs[1]>>)
         IN  IF r.ok /\ r.v = ExceptionValue /\ FlippedNoexcept(c, TypesOf(vs))
             THEN [ok |-> TRUE, v |-> TerminatedValue, calls |-> r.calls]
             ELSE r
    ELSE Failed(<<>>)

\* Faulty variant: the result of the predicate is returned as it is.
InvertedCall_NotNegated(c, vs) ==
    LET r == Apply(c.predicate, vs)
    IN  IF ~r.ok THEN Failed(r.calls)
        ELSE Returned(Bool(Truthy(r.v)), r.calls)

\* The closure of inverse: return !predicate(args...).
InvertedCall(c, vs) ==
    LET r == Apply(c.predicate, vs)
    IN  IF ~r.ok THEN Failed(r.calls)
        ELSE Returned(Bool(~Truthy(r.v)), r.calls)

\* Faulty variant: a mutable closure that moves its bound arguments out when
\* called.
AfterCall_MovedFrom(c, vs) ==
    IF c.kind \in {"curried", "bound"} THEN [c EXCEPT !.bound = <<>>] ELSE c

\* The object after its operator() ran: every closure is a non-mutable
\* lambda and FirstOf::operator() is const, so the captures are const in
\* the body (std::move(boundArgs) copies).
AfterCall(c, vs) == c

\* c(vs...) as the instantiated code executes it.
Apply(c, vs) ==
    CASE c.kind = "fn" ->
            IF LambdaAccepts(c, TypesOf(vs))
            THEN LET ps == [i \in 1..Len(vs) |-> Convert(vs[i], c.params[i])]
                     v == LambdaBody(c, ps)
                 IN  Returned(v, <<Executed(c, vs, v)>>)
            ELSE Failed(<<>>)
      [] c.kind = "Deleted" -> Failed(<<>>)
      [] c.kind = "FirstOf" -> FirstOfCall(c, vs)
      [] c.kind = "composed" -> ComposedCall(c, vs)
      [] c.kind = "curried" -> CurriedCall(c, vs)
      [] c.kind = "bound" -> BoundCall(c, vs)
      [] c.kind = "binop" ->
            IF BinaryOpAccepts(c, TypesOf(vs))
               /\ BinaryOpBody(c, vs[1], vs[2]) # ErrorValue
            THEN LET v == BinaryOpBody(c, vs[1], vs[2])
                 IN  Returned(v, <<Executed(c, vs, v)>>)
            ELSE Failed(<<>>)
      [] c.kind = "superposed" -> SuperposedCall(c, vs)
      [] c.kind = "fold" ->
            IF FoldAccepts(c, TypesOf(vs)) THEN Returned(FoldBody(c, vs), <<>>)
            ELSE Failed(<<>>)
      [] c.kind = "inverse" ->
            IF Len(vs) = 1 THEN Returned(Inverted(vs[1]), <<>>)
            ELSE Failed(<<>>)
      [] c.kind = "inverted" -> InvertedCall(c, vs)
      [] c.kind = "flip" ->
            IF Len(vs) = 1 THEN Returned(Flipped(vs[1]), <<>>)
            ELSE Failed(<<>>)
      [] c.kind = "flipped" -> FlippedCall(c, vs)
      [] c.kind = "bindFirst" ->
            IF Len(vs) = 2 THEN Returned(BindFront(vs[1], <<vs[2]>>), <<>>)
            ELSE Failed(<<>>)
      [] c.kind = "predicateCombinator" ->
            IF SuperposeAccepts(1 + Len(vs))
            THEN Returned(Superpose(c.op, vs), <<>>)
            ELSE Failed(<<>>)
      [] OTHER -> Failed(<<>>)

\* ----------------------------------------------------- operator binders
\* The function object behind each binder: plus is
\* makeBinaryFunctionRightArgumentBinder(std::plus{}), and so on.
BinderFunctions ==
    [plus |-> "plus", minus |-> "minus", times |-> "multiplies",
     divided |-> "divides", mod |-> "modulus", equals |-> "equal_to",
     differs |-> "not_equal_to", lessThan |-> "less",
     greaterThan |-> "greater", greaterOrEqualTo |-> "greater_equal",
     lessOrEqualTo |-> "less_equal"]

\* plus, minus, times, divided, mod, equals, differs, lessThan, ...
Binders ==
    [name \in DOMAIN BinderFunctions |->
        Apply(MakeBinaryFunctionRightArgumentBinder,
              <<BinaryOp(BinderFunctions[name])>>).v]

\* Faulty variant: the composition of differs(key) after keyExtractor.
Matches_Differs(key, keyExtractor) ==
    Compose2(Apply(Binders.differs, <<key>>).v, keyExtractor)

\* matches = [](auto key, auto keyExtractor)
\*           { return compose(equals(std::move(key)), keyExtractor); }
Matches(key, keyExtractor) ==
    Compose2(Apply(Binders.equals, <<key>>).v, keyExtractor)

\* ---------------------------------------------------------------- actions
Init ==
    /\ pc = "idle"
    /\ fn = NoObject
    /\ ctor = [op |-> "none"]
    /\ args = <<>>
    /\ accepted = FALSE
    /\ result = NoValue
    /\ calls = <<>>
    /\ path = <<"none", "none">>
    /\ heap = <<>>
    /\ chain = <<>>
    /\ again = FALSE
    /\ order = "leftToRight"

\* Lists of at most two and of at most three int arguments.
IntLists == UNION { [1..n -> ValuesOf("Int")] : n \in 0..2 }
IntLists3 == UNION { [1..n -> ValuesOf("Int")] : n \in 0..3 }

\* The candidate lists of at most MaxCands candidates; candidate i returns i.
CandidateLists ==
    UNION { { [i \in 1..n |-> IF ds[i] THEN Deleted(ConstLambda(ps[i], i))
                                       ELSE ConstLambda(ps[i], i)]
              : ps \in [1..n -> CandTypes], ds \in [1..n -> BOOLEAN] }
            : n \in 1..MaxCands }

\* auto f = firstOf(c1, ..., cn);
BuildFirstOf ==
    /\ pc = "idle"
    /\ \E cs \in CandidateLists :
          /\ fn' = FirstOf(cs)
          /\ ctor' = [op |-> "firstOf", fs |-> cs]
    /\ pc' = "built"
    /\ UNCHANGED <<args, accepted, result, calls, path, heap, chain, again, order>>

\* The functions given to compose.
ComposeLists ==
    UNION { [1..n -> {PlusOne, Twice, Minus}] : n \in 2..MaxCompose }

\* auto f = compose(f1, ..., fn);
BuildCompose ==
    /\ pc = "idle"
    /\ \E fs \in ComposeLists :
          /\ fn' = Compose(fs)
          /\ ctor' = [op |-> "compose", fs |-> fs]
    /\ pc' = "built"
    /\ UNCHANGED <<args, accepted, result, calls, path, heap, chain, again, order>>

\* auto f = curry(g);
BuildCurry ==
    /\ pc = "idle"
    /\ \E f \in {Digits, Minus} :
          /\ fn' = Curry(f)
          /\ ctor' = [op |-> "curry", f |-> f]
    /\ pc' = "built"
    /\ UNCHANGED <<args, accepted, result, calls, path, heap, chain, again, order>>

\* Callables that accept argument lists of several lengths: firstOf objects
\* over lambdas of one, two and three parameters.
OverloadedCallables ==
    { FirstOf(fs) : fs \in {<<Minus, Digits>>, <<Digits, Minus>>,
                            <<PlusOne, Digits>>} }

\* auto f = curry(firstOf(g, h));
BuildCurryOverloaded ==
    /\ pc = "idle"
    /\ \E f \in OverloadedCallables :
          /\ fn' = Curry(f)
          /\ ctor' = [op |-> "curryOverloaded", f |-> f]
    /\ pc' = "built"
    /\ UNCHANGED <<args, accepted, result, calls, path, heap, chain, again, order>>

\* auto f = bindFront(g, a1, ..., ak);
BuildBindFront ==
    /\ pc = "idle"
    /\ \E f \in {Digits, Minus}, bound \in IntLists :
          /\ fn' = BindFront(f, bound)
          /\ ctor' = [op |-> "bindFront", f |-> f, bound |-> bound]
    /\ pc' = "built"
    /\ UNCHANGED <<args, accepted, result, calls, path, heap, chain, again, order>>

\* The outer and the inner functions given to superpose; the program also
\* tries superpose(f), with no inner function.
SuperposeOuters == {PlusOne, Minus, Digits, BinaryOp("greater_equal")}
SuperposeInners ==
    UNION { [1..n -> {PlusOne, Twice, Minus}] : n \in 0..MaxSuperposed }

\* auto h = superpose(f, g1, ..., gn); the build fixes the order in which
\* the closure evaluates the inner calls.  An expression that does not
\* compile leaves the program without an object.
BuildSuperpose ==
    /\ pc = "idle"
    /\ \E f \in SuperposeOuters, gs \in SuperposeInners :
          LET ok == SuperposeAccepts(1 + Len(gs))
          IN  /\ fn' = IF ok THEN Superpose(f, gs) ELSE NoObject
              /\ ctor' = [op |-> "superpose", f |-> f, gs |-> gs]
              /\ pc' = IF ok THEN "built" ELSE "rejected"
              /\ order' \in IF ok THEN ArgumentOrders ELSE {order}
    /\ UNCHANGED <<args, accepted, result, calls, path, heap, chain, again>>

\* The predicates given to allOf, anyOf, noneOf and inverse; plusOne is a
\* predicate with an int result.
Predicates == {IsPositive, IsEven, PlusOne}
PredicateLists == UNION { [1..n -> Predicates] : n \in 0..MaxSuperposed }

\* allOf, anyOf and noneOf by name.
PredicateCombinators ==
    [allOf |-> AllOf, anyOf |-> AnyOf, noneOf |-> NoneOf]

\* auto p = allOf(p1, ..., pn); or anyOf or noneOf, each a superposition;
\* the program also tries allOf(), with no predicate.
BuildPredicateCombinator ==
    /\ pc = "idle"
    /\ \E name \in DOMAIN PredicateCombinators, ps \in PredicateLists :
          LET ok == IsInvocable(PredicateCombinators[name], TypesOf(ps), TRUE)
          IN  /\ fn' = IF ok THEN Apply(PredicateCombinators[name], ps).v
                        ELSE NoObject
              /\ ctor' = [op |-> name, ps |-> ps]
              /\ pc' = IF ok THEN "built" ELSE "rejected"
              /\ order' \in IF ok THEN ArgumentOrders ELSE {order}
    /\ UNCHANGED <<args, accepted, result, calls, path, heap, chain, again>>

\* auto q = inverse(p); or inverse(inverse(p)): the closure inverse returns.
BuildInverse ==
    /\ pc = "idle"
    /\ \E p \in Predicates \cup {Minus}, twice \in BOOLEAN :
          /\ fn' = IF twice THEN Inverted(Inverted(p)) ELSE Inverted(p)
          /\ ctor' = [op |-> "inverse", p |-> p, twice |-> twice]
    /\ pc' = "built"
    /\ UNCHANGED <<args, accepted, result, calls, path, heap, chain, again, order>>

\* auto f = bindFirst(g, a); which returns bindFront(g, a).
BuildBindFirst ==
    /\ pc = "idle"
    /\ \E f \in {Digits, Minus}, a \in ValuesOf("Int") :
          /\ fn' = BindFront(f, <<a>>)
          /\ ctor' = [op |-> "bindFirst", f |-> f, bound |-> <<a>>]
    /\ pc' = "built"
    /\ UNCHANGED <<args, accepted, result, calls, path, heap, chain, again, order>>

\* auto g = flip(f); the closure flip returns.
BuildFlip ==
    /\ pc = "idle"
    /\ \E f \in {Minus, CheckedMinus, InsertFront, BinaryOp("less")} :
          /\ fn' = Flipped(f)
          /\ ctor' = [op |-> "flip", f |-> f]
    /\ pc' = "built"
    /\ UNCHANGED <<args, accepted, result, calls, path, heap, chain, again, order>>

\* The argument lists given to a flipped function: ints, and a list with
\* an int in either order.
FlipArgLists ==
    IntLists
    \cup { <<a, x>> : a \in ListValues, x \in ValuesOf("Int") }
    \cup { <<x, a>> : a \in ListValues, x \in ValuesOf("Int") }

\* const auto op = plus; one of the binders of the library.
TakeBinder ==
    /\ pc = "idle"
    /\ \E name \in DOMAIN BinderFunctions :
          /\ fn' = Binders[name]
          /\ ctor' = [op |-> "binder", name |-> name,
                       f |-> BinaryOp(BinderFunctions[name])]
    /\ pc' = "built"
    /\ UNCHANGED <<args, accepted, result, calls, path, heap, chain, again, order>>

\* The operands given to a binder, as the operand to bind or as the left
\* operand: ints and strings; no zero is bound as the divisor of / or %.
BinderOperands(name, bound) ==
    { v \in ValuesOf("Int") \cup StringValues :
        (bound /\ name \in {"divided", "mod"} /\ TypeOf(v) = "Int")
            => v.val # 0 }

\* The callables handed to invoke: pointers to members and plain lambdas.
RawCallables == {PlusOfC, MinusOfD, XOfC, PlusOne, Minus}

\* X x; Y y; the objects of the program: one C and one D.
Heaps == { <<V("C", a), V("D", b)>> : a, b \in 0..MaxVal }

\* A callable and the objects the program will pass to invoke with it.
TakeCallable ==
    /\ pc = "idle"
    /\ \E f \in RawCallables, h \in Heaps :
          /\ fn' = f
          /\ heap' = h
    /\ ctor' = [op |-> "callable"]
    /\ pc' = "built"
    /\ UNCHANGED <<args, accepted, result, calls, path, chain, again, order>>

\* The key extractors given to matches: a pointer to member data, lambdas.
KeyExtractors == {XOfC, PlusOne, Twice}

\* const auto m = matches(key, keyExtractor); and the objects of the program.
BuildMatches ==
    /\ pc = "idle"
    /\ \E key \in ValuesOf("Int"), ex \in KeyExtractors, h \in Heaps :
          /\ fn' = Matches(key, ex)
          /\ ctor' = [op |-> "matches", key |-> key, keyExtractor |-> ex]
          /\ heap' = h
    /\ pc' = "built"
    /\ UNCHANGED <<args, accepted, result, calls, path, chain, again, order>>

\* What the program can pass as the first argument of invoke: an object, a
\* reference wrapper around it, a pointer to it, or a plain int.
Receivers ==
    UNION { { heap[a],
              V(IF heap[a].type = "C" THEN "RefC" ELSE "RefD", a),
              V(IF heap[a].type = "C" THEN "PtrC" ELSE "PtrD", a) }
            : a \in 1..Len(heap) }
    \cup ValuesOf("Int")

InvokeArgLists == {<<>>} \cup { <<r>> \o rest : r \in Receivers, rest \in IntLists }

\* invoke(f, args...) on the callable the program holds.
CallInvoke ==
    /\ pc \in {"built", "called"}
    /\ ctor.op = "callable"
    /\ \E vs \in InvokeArgLists :
          LET ok == IsInvocable(fn, TypesOf(vs), FALSE)
              r == Invoke(fn, vs)
          IN  /\ args' = vs
              /\ accepted' = ok
              /\ result' = IF ok THEN r.v ELSE NoValue
              /\ calls' = IF ok THEN r.calls ELSE <<>>
              /\ path' = IF ok THEN <<InvokePath(fn, vs), ReceiverBranch(fn, vs)>>
                          ELSE <<"none", "none">>
    /\ pc' = "called"
    /\ again' = (pc = "called")
    /\ UNCHANGED <<fn, ctor, heap, chain, order>>

ArgLists1 == { <<v>> : v \in UNION { ValuesOf(t) : t \in CandTypes } }

\* The argument lists the program calls a combinator object with.
CallArgLists ==
    CASE ctor.op = "firstOf" -> ArgLists1
      [] ctor.op = "compose" -> IntLists
      [] ctor.op \in {"curry", "curryOverloaded"} -> IntLists3
      [] ctor.op \in {"bindFront", "bindFirst"} -> IntLists
      [] ctor.op = "superpose" -> IntLists
      [] ctor.op \in DOMAIN PredicateCombinators -> IntLists
      [] ctor.op = "inverse" -> IntLists
      [] ctor.op = "flip" -> FlipArgLists
      [] ctor.op = "matches" -> { <<v>> : v \in Receivers }
      [] ctor.op = "binder" ->
            { <<v>> : v \in BinderOperands(ctor.name, chain = <<>>) }
      [] OTHER -> {}

\* f(args...) on the object the program holds; after std::terminate the
\* program makes no further call.
CallOperator ==
    /\ pc \in {"built", "called"}
    /\ ctor.op # "callable"
    /\ result # TerminatedValue
    /\ \E vs \in CallArgLists :
          LET ok == IsInvocable(fn, TypesOf(vs), TRUE)
              r == Apply(fn, vs)
          IN  /\ args' = vs
              /\ accepted' = ok
              /\ result' = IF ok THEN r.v ELSE NoValue
              /\ calls' = IF ok THEN r.calls ELSE <<>>
              /\ fn' = IF ok THEN AfterCall(fn, vs) ELSE fn
    /\ pc' = "called"
    /\ again' = (pc = "called")
    /\ UNCHANGED <<ctor, path, heap, chain, order>>

\* auto g = f(args...); the program goes on with the closure it got: as long
\* as it supplied something and arguments of the curried function are still
\* missing, or after it gave a binder its right operand.
KeepReturned ==
    /\ pc = "called"
    /\ accepted
    /\ "kind" \in DOMAIN result
    /\ args # <<>>
    /\ CASE ctor.op = "curry" ->
                Len(Flatten(chain)) + Len(args) < Len(ctor.f.params)
         [] ctor.op = "curryOverloaded" ->
                \E i \in 1..Len(ctor.f.fs) :
                    Len(Flatten(chain)) + Len(args) < Len(ctor.f.fs[i].params)
         [] OTHER -> ctor.op = "binder" /\ chain = <<>>
    /\ fn' = result
    /\ chain' = Append(chain, args)
    /\ pc' = "built"
    /\ args' = <<>>
    /\ accepted' = FALSE
    /\ result' = NoValue
    /\ calls' = <<>>
    /\ again' = FALSE
    /\ UNCHANGED <<ctor, path, heap, order>>

Reset ==
    /\ pc # "idle"
    /\ pc' = "idle"
    /\ fn' = NoObject
    /\ ctor' = [op |-> "none"]
    /\ args' = <<>>
    /\ accepted' = FALSE
    /\ result' = NoValue
    /\ calls' = <<>>
    /\ path' = <<"none", "none">>
    /\ heap' = <<>>
    /\ chain' = <<>>
    /\ again' = FALSE
    /\ order' = "leftToRight"

Next ==
    \/ BuildFirstOf
    \/ BuildCompose
    \/ BuildCurry
    \/ BuildCurryOverloaded
    \/ BuildBindFront
    \/ BuildBindFirst
    \/ BuildMatches
    \/ BuildFlip
    \/ BuildSuperpose
    \/ BuildPredicateCombinator
    \/ BuildInverse
    \/ TakeBinder
    \/ TakeCallable
    \/ CallInvoke
    \/ CallOperator
    \/ KeepReturned
    \/ Reset

Spec == Init /\ [][Next]_vars

\* ------------------------------------------------------------ properties
CalledFirstOf == pc = "called" /\ ctor.op = "firstOf"

IsMarked(c) == c.kind = "Deleted"
Unwrapped(c) == IF IsMarked(c) THEN c.f ELSE c

\* The parameter types of the candidate (of the callable a Deleted wraps)
\* accept the argument list.
ParamsAccept(c, vs) == LambdaAccepts(Unwrapped(c), TypesOf(vs))

\* The position of the first candidate whose parameters accept vs, or 0.
FirstAccepting(fs, vs) ==
    IF \E i \in 1..Len(fs) : ParamsAccept(fs[i], vs)
    THEN CHOOSE i \in 1..Len(fs) :
            /\ ParamsAccept(fs[i], vs)
            /\ \A j \in 1..(i - 1) : ~ParamsAccept(fs[j], vs)
    ELSE 0

\* C1: when the first candidate whose parameters accept the argument list is
\* marked Deleted, the firstOf object is not callable with that argument
\* list, whatever the position of the Deleted candidate and whatever later
\* candidates accept.
C1_DeletedMakesUncallable ==
    CalledFirstOf =>
        LET i == FirstAccepting(ctor.fs, args)
        IN  (i # 0 /\ IsMarked(ctor.fs[i])) => ~accepted

\* C2: when the first candidate whose parameters accept the argument list is
\* an unmarked one, the call is accepted, executes that candidate and no
\* other, and returns its result.
C2_FirstMatchInvoked ==
    CalledFirstOf =>
        LET i == FirstAccepting(ctor.fs, args)
        IN  (i # 0 /\ ~IsMarked(ctor.fs[i])) =>
                /\ accepted
                /\ result = V("Int", i)
                /\ calls = <<Executed(ctor.fs[i], args, V("Int", i))>>

\* C2 witness: the second candidate was chosen although the third accepts the
\* argument list too.
C2_Witness ==
    /\ CalledFirstOf
    /\ Len(ctor.fs) = 3
    /\ FirstAccepting(ctor.fs, args) = 2
    /\ ~IsMarked(ctor.fs[2]) /\ ~IsMarked(ctor.fs[3])
    /\ ParamsAccept(ctor.fs[3], args)
    /\ accepted /\ result = V("Int", 2)

\* C3: an unmarked candidate that is the first to accept the argument list
\* wins over a later Deleted candidate whose parameter types are exactly the
\* argument types: the call is accepted and returns the earlier result.
C3_EarlierCandidateBeatsDeleted ==
    CalledFirstOf =>
        \A i, j \in 1..Len(ctor.fs) :
            ( /\ i < j
              /\ ~IsMarked(ctor.fs[i])
              /\ FirstAccepting(ctor.fs, args) = i
              /\ IsMarked(ctor.fs[j])
              /\ ctor.fs[j].f.params = TypesOf(args) )
            => accepted /\ result = V("Int", i)

\* C3 witness: firstOf([](double){..}, Deleted([](int){..})) called with an int.
C3_Witness ==
    /\ CalledFirstOf
    /\ Len(ctor.fs) >= 2
    /\ ctor.fs[1] = ConstLambda("Double", 1)
    /\ ctor.fs[2] = Deleted(ConstLambda("Int", 2))
    /\ TypesOf(args) = <<"Int">>
    /\ accepted /\ result = V("Int", 1)

\* ------------------------------------------------------------------ invoke
CalledInvoke == pc = "called" /\ ctor.op = "callable"

IsReceiver(v) == TypeOf(v) \in ClassTypes \cup RefTypes \cup PtrTypes

\* The object a receiver stands for.
ObjectOf(v) == IF TypeOf(v) \in ClassTypes THEN v ELSE heap[v.val]

\* C4: an accepted invoke takes exactly one of three paths: a member
\* function pointer is called on its receiver with the remaining arguments;
\* a member data pointer with exactly one argument projects the member and
\* executes nothing; any other callable is applied to all the arguments.
\* The result of invoke is the result of that path.
C4_InvokePaths ==
    (CalledInvoke /\ accepted) =>
        CASE fn.kind = "memfun" ->
                LET o == ObjectOf(args[1])
                    v == IF fn.name = "plus"
                         THEN V("Int", o.val + args[2].val + args[3].val)
                         ELSE V("Int", o.val - args[2].val)
                IN  /\ path[1] = "memberFunction"
                    /\ result = v
                    /\ calls = <<Executed(fn, <<o>> \o Tail(args), v)>>
          [] fn.kind = "memdata" ->
                /\ Len(args) = 1
                /\ path[1] = "memberPointer"
                /\ result = V("Int", ObjectOf(args[1]).val)
                /\ calls = <<>>
          [] OTHER ->
                LET v == IF fn = PlusOne THEN V("Int", args[1].val + 1)
                         ELSE V("Int", args[1].val - args[2].val)
                IN  /\ path[1] = "direct"
                    /\ result = v
                    /\ calls = <<Executed(fn, args, v)>>

\* C4 witness: &D::minus called through a pointer to the D object.
C4_Witness ==
    /\ CalledInvoke /\ accepted
    /\ fn = MinusOfD
    /\ TypeOf(args[1]) = "PtrD"
    /\ path[1] = "memberFunction"
    /\ result = V("Int", heap[2].val - args[2].val)

\* The receivers that stand for the same object as v.
SameObject(v) ==
    { r \in Receivers : IsReceiver(r) /\ ObjectOf(r) = ObjectOf(v) }

\* C5: for a pointer to a member function or to member data, invoke returns
\* the same result for the instance, a reference wrapper around it and a
\* pointer to it; the receiver branch is "instance" for an object of the
\* class or a derived class, else "referenceWrapper" for a reference wrapper,
\* else "pointer".
C5_ReceiverShapesAgree ==
    (CalledInvoke /\ accepted /\ fn.kind \in {"memfun", "memdata"}) =>
        /\ Cardinality(SameObject(args[1])) = 3
        /\ \A r \in SameObject(args[1]) :
              LET other == Invoke(fn, <<r>> \o Tail(args))
              IN  /\ IsInvocable(fn, TypesOf(<<r>> \o Tail(args)), FALSE)
                  /\ other.ok
                  /\ other.v = result
        /\ path[2] = IF TypeOf(args[1]) \in ClassTypes THEN "instance"
                     ELSE IF TypeOf(args[1]) \in RefTypes THEN "referenceWrapper"
                     ELSE "pointer"

\* C5 witness: &C::x projected through a reference wrapper around the D
\* object, whose x differs from that of the C object.
C5_Witness ==
    /\ CalledInvoke /\ accepted
    /\ fn = XOfC
    /\ TypeOf(args[1]) = "RefD"
    /\ heap[1].val # heap[2].val
    /\ path = <<"memberPointer", "referenceWrapper">>
    /\ result = V("Int", heap[2].val)

\* ----------------------------------------------------------------- compose
CalledCompose == pc = "called" /\ ctor.op = "compose"

\* f1(f2(...fn(vs...)...)) computed on the lambdas themselves.
RECURSIVE NestedApplication(_, _)
NestedApplication(fs, vs) ==
    IF Len(fs) = 1 THEN LambdaBody(fs[1], vs)
    ELSE LambdaBody(fs[1], <<NestedApplication(Tail(fs), vs)>>)

\* C6: an accepted call of compose(f1, ..., fn) returns f1(f2(...fn(args)));
\* fn is executed first and alone receives the call's arguments, every
\* function to its left receives exactly the result of its right neighbour,
\* and the object behaves as compose(compose(f1, f2), f3, ...).
C6_ComposeIsNestedApplication ==
    (CalledCompose /\ accepted) =>
        LET fs == ctor.fs
            n == Len(fs)
        IN  /\ result = NestedApplication(fs, args)
            /\ Len(calls) = n
            /\ calls[1].f = fs[n] /\ calls[1].args = args
            /\ \A i \in 2..n :
                  /\ calls[i].f = fs[n - i + 1]
                  /\ calls[i].args = <<calls[i - 1].ret>>
            /\ calls[n].ret = result
            /\ n >= 3 =>
                  LET nested == Apply(Compose(<<Compose2(fs[1], fs[2])>>
                                              \o SubSeq(fs, 3, n)), args)
                  IN  nested.ok /\ nested.v = result /\ nested.calls = calls

\* C6 witness: compose(twice, plusOne, minus)(1, 0) = 2 * ((1 - 0) + 1) = 4,
\* which no other order of the three functions yields.
C6_Witness ==
    /\ CalledCompose /\ accepted
    /\ ctor.fs = <<Twice, PlusOne, Minus>>
    /\ args = <<V("Int", 1), V("Int", 0)>>
    /\ result = V("Int", 4)

\* ------------------------------------------------------ curry, bindFront
CalledCurry == pc = "called" /\ ctor.op = "curry"

\* Everything supplied along the chain of calls, the last call included.
Supplied == Flatten(chain) \o args

\* C7: whenever the arguments supplied to curry(f) over one or several calls
\* are together the n arguments of f, in order, the last call is accepted,
\* executes f once on them and returns f(a1, ..., an), however the
\* arguments were split into groups.
C7_CurrySplitsAgree ==
    (CalledCurry /\ Len(Supplied) = Len(ctor.f.params)) =>
        /\ accepted
        /\ result = LambdaBody(ctor.f, Supplied)
        /\ calls = <<Executed(ctor.f, Supplied, result)>>

\* C7 witness: curry(digits)(1)(0)(0) = 100.
C7_Witness ==
    /\ CalledCurry /\ accepted
    /\ ctor.f = Digits
    /\ chain = << <<V("Int", 1)>>, <<V("Int", 0)>> >>
    /\ args = <<V("Int", 0)>>
    /\ result = V("Int", 100)

\* What a closure with bound arguments returns for the arguments vs: the
\* underlying callable applied to the bound arguments followed by vs, or,
\* for a curried closure still missing arguments, the closure holding them.
BoundThenNew(c, vs) ==
    LET all == c.bound \o vs
    IN  IF Len(all) = Len(c.f.params) THEN LambdaBody(c.f, all)
        ELSE CurryImpl(c.f, all)

\* C8: a call of a curried closure or of a bindFront closure leaves the
\* closure (its captured function and bound arguments) unchanged, and what
\* an accepted call returns is determined by the closure and that call's
\* arguments alone, whether or not the closure was invoked before.
C8_CapturesUnchanged ==
    [][ (pc' = "called" /\ ctor.op \in {"curry", "bindFront"}) =>
            /\ fn' = fn
            /\ accepted' => result' = BoundThenNew(fn, args') ]_vars

\* C8 witness: a partially applied curried function, curry(digits)(1),
\* invoked again, returning digits(1, 0, 1).
C8_Witness ==
    /\ CalledCurry /\ accepted /\ again
    /\ fn = CurryImpl(Digits, <<V("Int", 1)>>)
    /\ args = <<V("Int", 0), V("Int", 1)>>
    /\ result = V("Int", 101)

SameTypeValues(v) ==
    CASE TypeOf(v) \in ArithmeticTypes -> ValuesOf(TypeOf(v))
      [] TypeOf(v) \in ClassTypes -> { V(TypeOf(v), n) : n \in 0..MaxVal }
      [] OTHER -> {v}

\* The argument lists with the same static types as vs.
SameTypeLists(vs) ==
    { ws \in [1..Len(vs) -> UNION { SameTypeValues(vs[i]) : i \in 1..Len(vs) }] :
        \A i \in 1..Len(vs) : ws[i] \in SameTypeValues(vs[i]) }

\* C10: the path of an accepted invoke and the candidate an accepted call
\* of a firstOf object executes are the same for every argument list of the
\* same static types, whatever the values.
C10_DispatchDependsOnTypesOnly ==
    (pc = "called" /\ accepted) =>
        \A ws \in SameTypeLists(args) :
            /\ ctor.op = "callable" =>
                  <<InvokePath(fn, ws), ReceiverBranch(fn, ws)>> = path
            /\ ctor.op = "firstOf" =>
                  LET other == Apply(fn, ws)
                  IN  /\ other.ok
                      /\ Len(other.calls) = 1
                      /\ other.calls[1].f = calls[1].f

\* C10 witness: &C::x projected from the C object, whose x is 0, while
\* there are C objects with another x.
C10_Witness ==
    /\ CalledInvoke /\ accepted
    /\ fn = XOfC
    /\ args = <<V("C", 0)>>
    /\ path = <<"memberPointer", "instance">>
    /\ Cardinality(SameTypeLists(args)) > 1

\* --------------------------------------------------------------- superpose
CalledSuperpose == pc = "called" /\ ctor.op = "superpose"

\* g(vs...) computed on the lambda or function object itself.
Direct(g, vs) ==
    IF g.kind = "binop" THEN BinaryOpBody(g, vs[1], vs[2])
    ELSE LambdaBody(g, vs)

\* The list with the elements at i and j exchanged.
Swap(s, i, j) ==
    [k \in 1..Len(s) |-> IF k = i THEN s[j] ELSE IF k = j THEN s[i] ELSE s[k]]

\* C11: an accepted call of superpose(f, g1, ..., gn) returns
\* f(g1(args), ..., gn(args)): each gi is executed once on the call's
\* unmodified arguments, f is executed last on the results in the order of
\* the gi, and with two gi exchanged the result is that of f with the
\* corresponding two arguments exchanged.
C11_SuperposeCombinesResults ==
    (CalledSuperpose /\ accepted) =>
        LET gs == ctor.gs
            n == Len(gs)
            results == [i \in 1..n |-> Direct(gs[i], args)]
        IN  /\ result = Direct(ctor.f, results)
            /\ Len(calls) = n + 1
            /\ \A k \in 1..n : calls[k].args = args
            /\ \A i \in 1..n :
                  Cardinality({ k \in 1..n : calls[k].f = gs[i] }) =
                  Cardinality({ k \in 1..n : gs[k] = gs[i] })
            /\ calls[n + 1] = Executed(ctor.f, results, result)
            /\ \A i, j \in 1..n :
                  LET swapped == Apply(Superpose(ctor.f, Swap(gs, i, j)), args)
                  IN  /\ swapped.ok
                      /\ swapped.v = Direct(ctor.f, Swap(results, i, j))

\* C11 witness: superpose(minus, plusOne, twice)(0) = (0 + 1) - (2 * 0) = 1,
\* where exchanging plusOne and twice gives -1, in a build that evaluates
\* the arguments of a call from right to left.
C11_Witness ==
    /\ CalledSuperpose /\ accepted
    /\ order = "rightToLeft"
    /\ ctor.f = Minus
    /\ ctor.gs = <<PlusOne, Twice>>
    /\ args = <<V("Int", 0)>>
    /\ result = V("Int", 1)
    /\ calls[1].f = Twice

\* ------------------------------------------------- allOf, anyOf, noneOf
\* p(vs...) as a condition, for every predicate of the list.
Holds(ps, vs) == [i \in 1..Len(ps) |-> Truthy(Direct(ps[i], vs))]

\* The predicates all return bool.
AllReturnBool(ps) == \A i \in 1..Len(ps) : ps[i].ret = "Bool"

\* C12: an accepted call of allOf(p1, ..., pn), n >= 1, is true exactly when
\* every pi is true on the call's arguments, and an accepted call of
\* anyOf(p1, ..., pn) exactly when at least one pi is; for predicates that
\* return bool the result is that bool.
C12_AllOfAnyOf ==
    (pc = "called" /\ ctor.op \in {"allOf", "anyOf"} /\ accepted) =>
        LET holds == Holds(ctor.ps, args)
            expected == IF ctor.op = "allOf"
                        THEN \A i \in 1..Len(holds) : holds[i]
                        ELSE \E i \in 1..Len(holds) : holds[i]
        IN  /\ Len(ctor.ps) >= 1
            /\ Truthy(result) = expected
            /\ AllReturnBool(ctor.ps) => result = Bool(expected)

\* C12 witness: allOf(isPositive, isEven)(1) is false while
\* anyOf(isPositive, isEven)(1) is true.
C12_Witness ==
    /\ pc = "called" /\ ctor.op = "allOf" /\ accepted
    /\ ctor.ps = <<IsPositive, IsEven>>
    /\ args = <<V("Int", 1)>>
    /\ result = Bool(FALSE)
    /\ Apply(Apply(AnyOf, ctor.ps).v, args).v = Bool(TRUE)

\* inverse(p1), ..., inverse(pn)
InverseEach(ps) == [i \in 1..Len(ps) |-> Apply(Inverse, <<ps[i]>>).v]

\* C13: an accepted call of noneOf(p1, ..., pn), n >= 1, is true exactly
\* when no pi is true on the call's arguments: it is the negation of
\* anyOf(p1, ..., pn) and equals allOf(inverse(p1), ..., inverse(pn)) on the
\* same arguments, which are accepted too.
C13_NoneOf ==
    (pc = "called" /\ ctor.op = "noneOf" /\ accepted) =>
        LET holds == Holds(ctor.ps, args)
            any == Apply(Apply(AnyOf, ctor.ps).v, args)
            allInverse == Apply(AllOf, InverseEach(ctor.ps)).v
            all == Apply(allInverse, args)
        IN  /\ result = Bool(~\E i \in 1..Len(holds) : holds[i])
            /\ any.ok /\ result = Bool(~Truthy(any.v))
            /\ IsInvocable(allInverse, TypesOf(args), TRUE)
            /\ all.ok /\ all.v = result

\* C13 witness: noneOf(isPositive, isEven)(1) is false, and so is
\* allOf(isPositive, isEven)(1).
C13_Witness ==
    /\ pc = "called" /\ ctor.op = "noneOf" /\ accepted
    /\ ctor.ps = <<IsPositive, IsEven>>
    /\ args = <<V("Int", 1)>>
    /\ result = Bool(FALSE)
    /\ Apply(Apply(AllOf, ctor.ps).v, args).v = Bool(FALSE)

\* -------------------------------------------------------- operator binders
\* A binder was given its right operand and then called with the left one.
CalledBinder == pc = "called" /\ ctor.op = "binder" /\ chain # <<>>

\* The operand the binder was given first.
BoundOperand == chain[1][1]

\* op(r)(l) for another binder of the library.
BinderChain(name, r, l) == Apply(Apply(Binders[name], <<r>>).v, <<l>>)

\* C14: giving a binder its operand r executes nothing and returns a
\* closure; an accepted call of that closure with l executes the operator
\* once as l OP r (the bound operand on the right) and returns its result;
\* differs(r)(l) is the negation of equals(r)(l).
C14_BindersFixRightOperand ==
    /\ (pc = "called" /\ ctor.op = "binder" /\ chain = <<>> /\ accepted) =>
            calls = <<>> /\ "kind" \in DOMAIN result
    /\ (CalledBinder /\ accepted) =>
        LET l == args[1]
            r == BoundOperand
        IN  /\ result = BinaryOpBody(ctor.f, l, r)
            /\ calls = <<Executed(ctor.f, <<l, r>>, result)>>
            /\ ctor.name = "minus" => result = V("Int", l.val - r.val)
            /\ ctor.name = "plus" /\ TypeOf(l) = "String" =>
                  result = V("String", l.val \o r.val)
            /\ ctor.name = "lessThan" /\ TypeOf(l) = "Int" =>
                  result = Bool(l.val < r.val)
            /\ ctor.name = "equals" =>
                  /\ result = Bool(l.val = r.val)
                  /\ BinderChain("differs", r, l).v = Bool(~Truthy(result))
            /\ ctor.name = "differs" =>
                  BinderChain("equals", r, l).v = Bool(~Truthy(result))

\* C14 witness: plus("1")("0") is "01" and not "10".
C14_Witness ==
    /\ CalledBinder /\ accepted
    /\ ctor.name = "plus"
    /\ BoundOperand = V("String", <<1>>)
    /\ args = <<V("String", <<0>>)>>
    /\ result = V("String", <<0, 1>>)

\* ------------------------------------------------- bindFront, bindFirst
CalledBound == pc = "called" /\ ctor.op \in {"bindFront", "bindFirst"}

\* C15: a call of bindFront(f, a1, ..., ak) with r1, ..., rm is accepted
\* exactly when f takes k + m arguments, and then executes f once on
\* a1, ..., ak, r1, ..., rm in this order and returns its result;
\* bindFirst(f, a) is bindFront(f, a).
C15_BoundArgumentsComeFirst ==
    CalledBound =>
        LET all == ctor.bound \o args
        IN  /\ accepted = (Len(all) = Len(ctor.f.params))
            /\ accepted =>
                  /\ result = LambdaBody(ctor.f, all)
                  /\ calls = <<Executed(ctor.f, all, result)>>
            /\ ctor.op = "bindFirst" =>
                  /\ Len(ctor.bound) = 1
                  /\ fn = BindFront(ctor.f, ctor.bound)

\* C15 witness: bindFront(digits, 1, 0)(0) = digits(1, 0, 0) = 100.
C15_Witness ==
    /\ CalledBound /\ accepted
    /\ ctor.op = "bindFront"
    /\ ctor.f = Digits
    /\ ctor.bound = <<V("Int", 1), V("Int", 0)>>
    /\ args = <<V("Int", 0)>>
    /\ result = V("Int", 100)

\* ----------------------------------------------------------------- matches
CalledMatches == pc = "called" /\ ctor.op = "matches"

\* keyExtractor(item) computed on the extractor itself.
ExtractedKey(ex, item) ==
    IF ex.kind = "memdata" THEN V("Int", ObjectOf(item).val)
    ELSE LambdaBody(ex, <<item>>)

\* C16: an accepted call of matches(key, keyExtractor) with an item is true
\* exactly when keyExtractor(item) equals key: the extractor is applied to
\* the item first and equals(key) to its result, which compares the
\* extracted key (left) with key (right).
C16_MatchesComparesExtractedKey ==
    (CalledMatches /\ accepted) =>
        LET ex == ctor.keyExtractor
            k == ExtractedKey(ex, args[1])
            compared == Executed(BinaryOp("equal_to"), <<k, ctor.key>>, result)
        IN  /\ result = Bool(k.val = ctor.key.val)
            /\ result = BinderChain("equals", ctor.key, k).v
            /\ calls = IF ex.kind = "memdata" THEN <<compared>>
                       ELSE <<Executed(ex, args, k), compared>>

\* C16 witness: matches(1, &C::x) is true of a pointer to the D object
\* whose x is 1, while the x of the C object is 0.
C16_Witness ==
    /\ CalledMatches /\ accepted
    /\ ctor.key = V("Int", 1)
    /\ ctor.keyExtractor = XOfC
    /\ heap = <<V("C", 0), V("D", 1)>>
    /\ args = <<V("PtrD", 2)>>
    /\ result = Bool(TRUE)

\* -------------------------------------------------------------------- flip
CalledFlip == pc = "called" /\ ctor.op = "flip"

\* std::accumulate(first, last, init, op): init = op(init, x) for every
\* element x in turn.
RECURSIVE Accumulate(_, _, _)
Accumulate(op, init, xs) ==
    IF xs = <<>> THEN init
    ELSE Accumulate(op, Apply(op, <<init, Head(xs)>>).v, Tail(xs))

\* The int sequences of at most three elements.
IntSequences == UNION { [1..n -> 0..MaxVal] : n \in 0..3 }

\* C17: an accepted call flip(f)(x, y) executes f once on (y, x) and ends as
\* f(y, x) ends, with its result or with its exception; folding a sequence
\* with flip(insertFront) from the empty list gives the sequence reversed.
C17_FlipExchangesArguments ==
    (CalledFlip /\ accepted) =>
        LET flipped == <<args[2], args[1]>>
        IN  /\ result = Direct(ctor.f, flipped)
            /\ calls = <<Executed(ctor.f, flipped, Direct(ctor.f, flipped))>>
            /\ ctor.f = InsertFront =>
                  \A xs \in IntSequences :
                      Accumulate(fn, V("List", <<>>),
                                 [i \in 1..Len(xs) |-> V("Int", xs[i])])
                          = V("List", Reverse(xs))

\* ----------------------------------------------------------------- inverse
CalledInverse == pc = "called" /\ ctor.op = "inverse"

\* C18: an accepted call of inverse(p) executes p once on the call's
\* arguments and returns the bool negation of its result; inverse(inverse(p))
\* has the truth value of p on every argument list, and is p's result itself
\* when p returns bool.
C18_InverseNegates ==
    (CalledInverse /\ accepted) =>
        LET v == Direct(ctor.p, args)
        IN  /\ calls = <<Executed(ctor.p, args, v)>>
            /\ ~ctor.twice => result = Bool(~Truthy(v))
            /\ ctor.twice =>
                  /\ result = Bool(Truthy(v))
                  /\ ctor.p.ret = "Bool" => result = v

\* C18 witness: inverse(inverse(isEven))(1) is false, as isEven(1) is.
C18_Witness ==
    /\ CalledInverse /\ accepted
    /\ ctor.p = IsEven /\ ctor.twice
    /\ fn = Inverted(Inverted(IsEven))
    /\ args = <<V("Int", 1)>>
    /\ result = Bool(FALSE)

\* ------------------------------------------------------- chains of curry
CurryOps == {"curry", "curryOverloaded"}

\* The underlying callable accepts the argument list.
Complete(f, vs) == IsInvocable(f, TypesOf(vs), FALSE)

\* C19: along a chain of calls that starts at curry(f), the closure called
\* holds exactly the arguments of the earlier calls, in order, and no prefix
\* of the chain was accepted by f; a call whose accumulated list (bound
\* arguments, then the new ones) f accepts executes f once on that list and
\* returns its result; any other call executes nothing and returns a curried
\* closure holding the accumulated list; the chain is only continued from a
\* call that executed nothing.
C19_CurryAccumulates ==
    [][ /\ (pc' = "called" /\ ctor'.op \in CurryOps) =>
              LET f == ctor'.f
                  before == Flatten(chain')
                  acc == before \o args'
              IN  /\ fn' = [kind |-> "curried", f |-> f, bound |-> before]
                  /\ \A k \in 1..Len(chain') :
                        ~Complete(f, Flatten(SubSeq(chain', 1, k)))
                  /\ accepted'
                  /\ IF Complete(f, acc)
                     THEN /\ Len(calls') = 1
                          /\ calls'[1].args = acc
                          /\ calls'[1].ret = result'
                          /\ result' = Invoke(f, acc).v
                          /\ "type" \in DOMAIN result'
                     ELSE /\ calls' = <<>>
                          /\ result' = [kind |-> "curried", f |-> f,
                                        bound |-> acc]
        /\ (pc = "called" /\ pc' = "built" /\ ctor.op \in CurryOps) =>
              /\ calls = <<>>
              /\ fn' = result
              /\ chain' = Append(chain, args) ]_vars

\* C19 witness: curry(firstOf(minus, digits))(1)(0) executes minus(1, 0) at
\* the second call, the first at which the accumulated list is accepted,
\* although a third argument would be accepted too.
C19_Witness ==
    /\ pc = "called" /\ ctor.op = "curryOverloaded" /\ accepted
    /\ ctor.f = FirstOf(<<Minus, Digits>>)
    /\ chain = << <<V("Int", 1)>> >>
    /\ args = <<V("Int", 0)>>
    /\ result = V("Int", 1)
    /\ calls = <<Executed(Minus, <<V("Int", 1), V("Int", 0)>>, V("Int", 1))>>

\* ------------------------------------------------- firstOf, no candidate
\* The candidates from position k on.
CandidatesFrom(fs, k) == SubSeq(fs, k, Len(fs))

\* C20: a call of a firstOf object is accepted only if the parameters of at
\* least one candidate accept the argument list; when none does, no
\* selector along the recursion over the candidates is callable, down to
\* the empty one, the call is rejected and no candidate is executed.
C20_NoCandidateNoCall ==
    CalledFirstOf =>
        /\ accepted => FirstAccepting(ctor.fs, args) # 0
        /\ FirstAccepting(ctor.fs, args) = 0 =>
              /\ ~accepted
              /\ calls = <<>> /\ result = NoValue
              /\ \A k \in 1..(Len(ctor.fs) + 1) :
                    ~IsInvocable(FirstOf(CandidatesFrom(ctor.fs, k)),
                                 TypesOf(args), TRUE)

\* C20 witness: firstOf([](First) {..}, [](int) {..}) called with a Second.
C20_Witness ==
    /\ CalledFirstOf /\ ~accepted
    /\ ctor.fs = <<ConstLambda("First", 1), ConstLambda("Int", 2)>>
    /\ args = <<V("Second", 0)>>
    /\ calls = <<>>

\* ------------------------------------------------------- no short circuit
CalledPredicateCombinator ==
    pc = "called" /\ ctor.op \in DOMAIN PredicateCombinators

\* The predicates in the order the build evaluates them.
EvaluationOrder(ps) == IF order = "leftToRight" THEN ps ELSE Reverse(ps)

\* C21: allOf, anyOf and noneOf do not short-circuit: an accepted call of
\* the combination of p1, ..., pn executes every pi exactly once on the
\* call's arguments, whatever the results of the others, and the result
\* combines the n values these executions returned.
C21_NoShortCircuit ==
    (CalledPredicateCombinator /\ accepted) =>
        LET ps == EvaluationOrder(ctor.ps)
            n == Len(ps)
            returned == EvaluationOrder([k \in 1..n |-> calls[k].ret])
            op == IF ctor.op = "allOf" THEN AndAll ELSE OrAll
            combined == FoldBody(op, returned)
        IN  /\ Len(calls) = n
            /\ \A k \in 1..n :
                  calls[k] = Executed(ps[k], args, Direct(ps[k], args))
            /\ result = IF ctor.op = "noneOf" THEN Bool(~Truthy(combined))
                        ELSE combined

\* C21 witness: allOf(isPositive, isEven)(0) in a build that evaluates from
\* left to right: isPositive returned false first and isEven was executed
\* all the same; so was isPositive in anyOf(isEven, isPositive)(0) after
\* isEven returned true.
C21_Witness ==
    /\ CalledPredicateCombinator /\ accepted
    /\ ctor.op = "allOf"
    /\ order = "leftToRight"
    /\ ctor.ps = <<IsPositive, IsEven>>
    /\ args = <<V("Int", 0)>>
    /\ calls[1] = Executed(IsPositive, args, Bool(FALSE))
    /\ calls[2] = Executed(IsEven, args, Bool(TRUE))
    /\ result = Bool(FALSE)
    /\ Apply(Apply(AnyOf, <<IsEven, IsPositive>>).v, args).calls =
          <<Executed(IsEven, args, Bool(TRUE)),
            Executed(IsPositive, args, Bool(FALSE))>>

\* ------------------------------------------------- superpose of one function
\* The construction expression of the program did not compile.
RejectedBuild == pc = "rejected"

\* C22: superpose needs an outer and at least one inner function:
\* superpose(f) selects the deleted overload and is rejected, and so are
\* allOf(), anyOf() and noneOf() with no predicate, which leave no closure
\* that could return the value of the empty fold; with one inner function or
\* predicate or more the expression is accepted.
C22_SuperposeNeedsInner ==
    /\ \A n \in 0..(MaxSuperposed + 1) : SuperposeAccepts(n) <=> n >= 2
    /\ (ctor.op = "superpose") => (RejectedBuild <=> ctor.gs = <<>>)
    /\ (ctor.op \in DOMAIN PredicateCombinators) =>
          /\ RejectedBuild <=> ctor.ps = <<>>
          /\ ~IsInvocable(PredicateCombinators[ctor.op], <<>>, TRUE)
          /\ ~Apply(PredicateCombinators[ctor.op], <<>>).ok
    /\ RejectedBuild =>
          /\ ctor.op \in {"superpose"} \cup DOMAIN PredicateCombinators
          /\ SuperposeSelected(1) = "deleted"
          /\ fn = NoObject
          /\ result = NoValue /\ calls = <<>>

\* C22 witness: allOf() was rejected, where the fold of andAll over no value
\* is true.
C22_Witness ==
    /\ RejectedBuild
    /\ ctor.op = "allOf"
    /\ ctor.ps = <<>>
    /\ fn = NoObject
    /\ FoldBody(AndAll, <<>>) = Bool(TRUE)

====
